---------------------------- MODULE Spec2Model ----------------------------
(***************************************************************************)
(* A model of pickles, an IRC relay to a chat completion service           *)
(* (src/src/main.rs): the supervisor loop of main, one session of run, the *)
(* per-nick conversation memory written by remember and ask_chatgpt, and   *)
(* the paced, chunked delivery of say / truncate_to.                       *)
(*                                                                         *)
(* Text is modelled as the sequence of its UTF-8 bytes, so that character  *)
(* counting (char_indices) and byte splitting (split_at) are distinct.     *)
(* Nicknames and targets are TLA+ strings; Utf8 gives their bytes.         *)
(***************************************************************************)
EXTENDS Integers, Sequences, FiniteSets, TLC

(* ------------------------------ constants ------------------------------ *)

\* const MAX_LINES: usize = 4;
MAX_LINES == 4

\* const MAX_MEMORY: usize = 10;
MAX_MEMORY == 10

\* truncate_to(500, sentence)
CHUNK_LIMIT == 500

\* time::sleep(time::Duration::new(30, 0)) in main
BACKOFF_SECS == 30

\* time::sleep(time::Duration::new(0, 750)) in say
PACE_NANOS == 750

(* -------------------------------- bounds ------------------------------- *)

\* Turns recorded in one session's store before the stream is made to end,
\* in the specification that exercises delivery (Spec).
MaxInserts == 3

\* The same bound in the specification that exercises eviction (StoreSpec).
StoreMaxInserts == 12

\* The longest text, in characters, and the largest limit truncate_to is
\* called with in the specification of truncate_to alone (TruncateSpec),
\* next to the limit and the lengths say calls it with.
MaxLineChars == 4
MaxLimit == 3

(* --------------------------------- text -------------------------------- *)

LF == 10
CR == 13

\* The UTF-8 bytes of the names the model uses.
Utf8(s) ==
    CASE s = "pickles"          -> <<112, 105, 99, 107, 108, 101, 115>>
      [] s = "alice"            -> <<97, 108, 105, 99, 101>>
      [] s = "bob"              -> <<98, 111, 98>>
      [] s = "Luser"            -> <<76, 117, 115, 101, 114>>
      [] s = "DM"               -> <<68, 77>>
      [] s = "#linuxgeneration" -> <<35, 108, 105, 110, 117, 120, 103, 101,
                                     110, 101, 114, 97, 116, 105, 111, 110>>
      [] s = "#dfw"             -> <<35, 100, 102, 119>>
      [] s = "#other"           -> <<35, 111, 116, 104, 101, 114>>
      [] s = ""                 -> << >>

\* ": " -- the separator after the nickname in an addressed channel message
NickSeparator == <<58, 32>>

\* "You are an IRC chat bot. ... Your most recent message is from: "
PromptHead ==
    <<89, 111, 117, 32, 97, 114, 101, 32, 97, 110, 32, 73, 82, 67, 32, 99,
      104, 97, 116, 32, 98, 111, 116, 46, 32, 89, 111, 117, 114, 32, 110, 97,
      109, 101, 32, 105, 115, 32, 112, 105, 99, 107, 108, 101, 115, 46, 32,
      89, 111, 117, 114, 32, 106, 111, 98, 32, 105, 115, 32, 116, 111, 32,
      114, 101, 115, 112, 111, 110, 100, 32, 116, 111, 32, 111, 116, 104,
      101, 114, 32, 109, 101, 109, 98, 101, 114, 115, 32, 111, 102, 32, 121,
      111, 117, 114, 32, 99, 104, 97, 110, 110, 101, 108, 32, 105, 110, 32,
      97, 32, 102, 117, 110, 110, 121, 32, 97, 110, 100, 32, 104, 117, 109,
      111, 114, 111, 117, 115, 32, 109, 97, 110, 110, 101, 114, 46, 32, 89,
      111, 117, 32, 97, 114, 101, 32, 115, 117, 112, 112, 111, 115, 101, 100,
      32, 116, 111, 32, 109, 97, 107, 101, 32, 112, 101, 111, 112, 108, 101,
      32, 108, 97, 117, 103, 104, 46, 32, 89, 111, 117, 32, 115, 104, 111,
      117, 108, 100, 32, 98, 101, 32, 115, 105, 108, 108, 121, 44, 32, 102,
      117, 110, 110, 121, 44, 32, 115, 116, 117, 112, 105, 100, 44, 32, 105,
      114, 114, 101, 118, 101, 114, 101, 110, 116, 44, 32, 119, 105, 116,
      116, 121, 44, 32, 108, 105, 107, 97, 98, 108, 101, 44, 32, 97, 110,
      100, 32, 102, 117, 110, 46, 32, 89, 111, 117, 114, 32, 114, 101, 115,
      112, 111, 110, 115, 101, 115, 32, 100, 111, 110, 39, 116, 32, 104, 97,
      118, 101, 32, 116, 111, 32, 109, 97, 107, 101, 32, 115, 101, 110, 115,
      101, 32, 98, 117, 116, 32, 116, 104, 101, 32, 115, 104, 111, 117, 108,
      100, 32, 109, 97, 107, 101, 32, 112, 101, 111, 112, 108, 101, 32, 108,
      97, 117, 103, 104, 46, 32, 89, 111, 117, 114, 32, 109, 111, 115, 116,
      32, 114, 101, 99, 101, 110, 116, 32, 109, 101, 115, 115, 97, 103, 101,
      32, 105, 115, 32, 102, 114, 111, 109, 58, 32>>

\* ". Make sure you respond to them."
PromptTail ==
    <<46, 32, 77, 97, 107, 101, 32, 115, 117, 114, 101, 32, 121, 111, 117,
      32, 114, 101, 115, 112, 111, 110, 100, 32, 116, 111, 32, 116, 104, 101,
      109, 46>>

\* ": sure but it's a big one so I'll send it to just you"
NoticeTail ==
    <<58, 32, 115, 117, 114, 101, 32, 98, 117, 116, 32, 105, 116, 39, 115,
      32, 97, 32, 98, 105, 103, 32, 111, 110, 101, 32, 115, 111, 32, 73, 39,
      108, 108, 32, 115, 101, 110, 100, 32, 105, 116, 32, 116, 111, 32, 106,
      117, 115, 116, 32, 121, 111, 117>>

\* "hrmmm I'm not really sure..."
Fallback ==
    <<104, 114, 109, 109, 109, 32, 73, 39, 109, 32, 110, 111, 116, 32, 114,
      101, 97, 108, 108, 121, 32, 115, 117, 114, 101, 46, 46, 46>>

\* format!("You are an IRC chat bot. ... is from: {}. Make sure ...", nick)
PromptText(nick) == PromptHead \o Utf8(nick) \o PromptTail

\* format!("{}: sure but it's a big one so I'll send it to just you", nick)
NoticeText(nick) == Utf8(nick) \o NoticeTail

\* format!("{}: ", client.current_nickname())
NickPrefix(nickname) == Utf8(nickname) \o NickSeparator

\* str::starts_with
StartsWith(s, p) == Len(s) >= Len(p) /\ SubSeq(s, 1, Len(p)) = p

\* str::strip_prefix(..).expect(..), used only where StartsWith(s, p) holds
StripPrefix(s, p) == SubSeq(s, Len(p) + 1, Len(s))

\* The i-th smallest element of a finite set of integers.
Nth(S, i) == CHOOSE p \in S : Cardinality({q \in S : q <= p}) = i

\* str::lines(): the text is cut after every "\n"; each piece loses its
\* final "\n" and then a "\r" that preceded it.  A text that ends in "\n"
\* has no further (empty) line after it, and the empty text has no line.
Lines(s) ==
    LET nl    == {i \in 1..Len(s) : s[i] = LF}
        k     == Cardinality(nl)
        count == IF Len(s) > 0 /\ s[Len(s)] # LF THEN k + 1 ELSE k
        first(j) == IF j = 1 THEN 1 ELSE Nth(nl, j - 1) + 1
        piece(j) ==
            IF j <= k
            THEN LET e == Nth(nl, j)
                     body == SubSeq(s, first(j), e - 1)
                 IN  IF Len(body) > 0 /\ body[Len(body)] = CR
                     THEN SubSeq(body, 1, Len(body) - 1)
                     ELSE body
            ELSE SubSeq(s, first(j), Len(s))
    IN  [j \in 1..count |-> piece(j)]

\* The positions (1-based) of the bytes that start a character: every byte
\* that is not a UTF-8 continuation byte 10xxxxxx.
CharStarts(s) == {i \in 1..Len(s) : s[i] \div 64 # 2}

\* Number of characters of a text.
CharCount(s) == Cardinality(CharStarts(s))

\* Variant: the offset is counted in bytes.
NthByteOffset(s, max_chars) ==
    IF Len(s) > max_chars THEN max_chars ELSE -1

\* remaining.char_indices().nth(max_chars): the byte offset (0-based) of the
\* character with index max_chars, or -1 for None. (That character starts
\* after at least max_chars bytes, which is where the search begins.)
NthCharOffset(s, max_chars) ==
    LET starts == CharStarts(s)
    IN  IF Cardinality(starts) > max_chars
        THEN (CHOOSE p \in {q \in starts : q > max_chars} :
                 Cardinality({q \in starts : q < p}) = max_chars) - 1
        ELSE -1

\* fn truncate_to(max_chars, target) -> Vec<&str>, for max_chars >= 1 (with
\* max_chars = 0 and a non-empty target the loop of the code never ends).
RECURSIVE truncate_to(_, _)
truncate_to(max_chars, target) ==
    LET offset == NthCharOffset(target, max_chars)
    IN  IF offset >= 0
        THEN <<SubSeq(target, 1, offset)>>
             \o truncate_to(max_chars, SubSeq(target, offset + 1, Len(target)))
        ELSE <<target>>

(* ------------------------- conversation memory ------------------------- *)

\* HashMap::new(): no nick has a history.
EmptyMemory == [n \in {} |-> << >>]

Turn(role, content) == [role |-> role, content |-> content]

\* Variant: the history is written for every nick of the store.
StoreForAll(mem, nick, history) ==
    [n \in DOMAIN mem \cup {nick} |-> history]

\* memory.insert(nick, history) / the write through get_mut(nick)
Store(mem, nick, history) ==
    [n \in DOMAIN mem \cup {nick} |-> IF n = nick THEN history ELSE mem[n]]

\* Variant: no history is created for a nick that has none.
remember_known_only(mem, nick, msg) ==
    LET message == Turn("User", msg)
    IN  IF nick \in DOMAIN mem
        THEN LET history == mem[nick]
                 kept == IF Len(history) > MAX_MEMORY THEN Tail(history)
                                                      ELSE history
             IN  Store(mem, nick, Append(kept, message))
        ELSE mem

\* fn remember(memory, nick, msg): the User turn is appended to the nick's
\* history; a history longer than MAX_MEMORY first loses its front element;
\* a nick without history gets a new one.
remember(mem, nick, msg) ==
    LET message == Turn("User", msg)
    IN  IF nick \in DOMAIN mem
        THEN LET history == mem[nick]
                 kept == IF Len(history) > MAX_MEMORY THEN Tail(history)
                                                      ELSE history
             IN  Store(mem, nick, Append(kept, message))
        ELSE Store(mem, nick, <<message>>)

\* Variant: the Assistant turn is appended without dropping a turn.
record_response_keeps(mem, nick, response) ==
    IF nick \in DOMAIN mem
    THEN Store(mem, nick, Append(mem[nick], response))
    ELSE mem

\* Variant: the Assistant turn is appended twice.
record_response_twice(mem, nick, response) ==
    IF nick \in DOMAIN mem
    THEN LET h == mem[nick]
             kept == IF Len(h) > MAX_MEMORY THEN Tail(h) ELSE h
         IN  Store(mem, nick, Append(Append(kept, response), response))
    ELSE mem

\* ask_chatgpt, `if let Some(h) = memory.get_mut(nick) { .. }`: the
\* Assistant turn is appended the same way; nothing happens for a nick
\* without history.
record_response(mem, nick, response) ==
    IF nick \in DOMAIN mem
    THEN LET h == mem[nick]
             kept == IF Len(h) > MAX_MEMORY THEN Tail(h) ELSE h
         IN  Store(mem, nick, Append(kept, response))
    ELSE mem

(* ------------------------------- request ------------------------------- *)

NoRequest == [max_tokens |-> 0, model |-> "", messages |-> << >>]

\* Variant: the System prompt is pushed to the back.
build_request_back(mem, nick) ==
    LET prompt == Turn("System", PromptText(nick))
        history == mem[nick] \o <<prompt>>
    IN  [max_tokens |-> 2048, model |-> "gpt-3.5-turbo", messages |-> history]

\* ask_chatgpt up to the request: the System prompt is pushed to the front
\* of a clone of the nick's history.
build_request(mem, nick) ==
    LET prompt == Turn("System", PromptText(nick))
        history == <<prompt>> \o mem[nick]
    IN  [max_tokens |-> 2048, model |-> "gpt-3.5-turbo", messages |-> history]

(* ------------------------------- delivery ------------------------------ *)

\* One client.send_privmsg(target, text) of say; paced tells whether the
\* code sleeps after it.
Privmsg(target, text, paced) == [target |-> target, text |-> text, paced |-> paced]

RECURSIVE ChunkSendsSkipsEmpty(_, _)
\* Variant: an empty chunk is not sent.
ChunkSendsSkipsEmpty(target, sentences) ==
    IF sentences = << >>
    THEN << >>
    ELSE LET chunks == SelectSeq(truncate_to(CHUNK_LIMIT, Head(sentences)),
                                 LAMBDA c : c # << >>)
         IN  [i \in 1..Len(chunks) |-> Privmsg(target, chunks[i], TRUE)]
             \o ChunkSendsSkipsEmpty(target, Tail(sentences))

RECURSIVE ChunkSends(_, _)
\* `for sentence in ..  { for chunk in truncate_to(500, sentence) { .. } }`
ChunkSends(target, sentences) ==
    IF sentences = << >>
    THEN << >>
    ELSE LET chunks == truncate_to(CHUNK_LIMIT, Head(sentences))
         IN  [i \in 1..Len(chunks) |-> Privmsg(target, chunks[i], TRUE)]
             \o ChunkSends(target, Tail(sentences))

\* Iterator::take(n)
Take(s, n) == SubSeq(s, 1, IF Len(s) < n THEN Len(s) ELSE n)

\* Variant: the redirect branch too sends the first MAX_LINES lines only.
say_plan_takes(channel, msg, private_message_nick) ==
    LET sentences == Lines(msg)
    IN  IF Len(sentences) > MAX_LINES
        THEN (IF channel # private_message_nick
              THEN <<Privmsg(channel, NoticeText(private_message_nick), FALSE)>>
              ELSE << >>)
             \o ChunkSends(private_message_nick, Take(sentences, MAX_LINES))
        ELSE ChunkSends(channel, Take(sentences, MAX_LINES))

\* Variant: a reply of MAX_LINES lines is redirected already.
say_plan_redirects_at_max(channel, msg, private_message_nick) ==
    LET sentences == Lines(msg)
    IN  IF Len(sentences) >= MAX_LINES
        THEN (IF channel # private_message_nick
              THEN <<Privmsg(channel, NoticeText(private_message_nick), FALSE)>>
              ELSE << >>)
             \o ChunkSends(private_message_nick, sentences)
        ELSE ChunkSends(channel, Take(sentences, MAX_LINES))

\* fn say(client, channel, msg, private_message_nick): the sends it makes,
\* in order, when none fails.
say_plan(channel, msg, private_message_nick) ==
    LET sentences == Lines(msg)
    IN  IF Len(sentences) > MAX_LINES
        THEN (IF channel # private_message_nick
              THEN <<Privmsg(channel, NoticeText(private_message_nick), FALSE)>>
              ELSE << >>)
             \o ChunkSends(private_message_nick, sentences)
        ELSE ChunkSends(channel, Take(sentences, MAX_LINES))

(* ---------------------------- inbound events --------------------------- *)

\* config.nickname; no alternative nicknames are configured, so
\* client.current_nickname() is this name throughout.
current_nickname == "pickles"

Prefix(kind, name) == [kind |-> kind, name |-> name]
NoPrefix == Prefix("None", "")

Message(command, channel, msg, prefix) ==
    [command |-> command, channel |-> channel, msg |-> msg, prefix |-> prefix]

NoMessage == Message("", "", << >>, NoPrefix)

\* fn extract_nick(prefix)
extract_nick(prefix) ==
    IF prefix.kind = "Nickname" THEN prefix.name ELSE "Luser"

\* A target that names a channel starts with one of # & + !
IsChannelName(target) ==
    LET b == Utf8(target) IN Len(b) > 0 /\ b[1] \in {35, 38, 43, 33}

\* message.response_target(): the channel of a channel message, otherwise
\* the nickname of the sender, if the prefix has one. An Option, as a
\* sequence of length at most one.
response_target(m) ==
    IF m.command = "PRIVMSG" /\ IsChannelName(m.channel)
    THEN <<m.channel>>
    ELSE IF m.prefix.kind = "Nickname" THEN <<m.prefix.name>> ELSE << >>

\* Variant: a direct message is answered whoever sent it.
RouteAnySender(m) ==
    LET ignored == [handled |-> FALSE, nick |-> "", text |-> << >>, channel |-> ""]
    IN  IF m.command # "PRIVMSG"
        THEN ignored
        ELSE IF m.channel = "#linuxgeneration" \/ m.channel = "#dfw"
        THEN IF StartsWith(m.msg, NickPrefix(current_nickname))
             THEN [handled |-> TRUE,
                   nick    |-> extract_nick(m.prefix),
                   text    |-> StripPrefix(m.msg, NickPrefix(current_nickname)),
                   channel |-> m.channel]
             ELSE ignored
        ELSE IF m.channel = current_nickname
        THEN LET target == response_target(m)
             IN  IF target # << >>
                 THEN [handled |-> TRUE, nick |-> target[1],
                       text |-> m.msg, channel |-> target[1]]
                 ELSE ignored
        ELSE ignored

\* The branches of the loop body of run: whether the message is answered,
\* and then under which nick, with which text, and where the reply goes.
Route(m) ==
    LET ignored == [handled |-> FALSE, nick |-> "", text |-> << >>, channel |-> ""]
    IN  IF m.command # "PRIVMSG"
        THEN ignored
        ELSE IF m.channel = "#linuxgeneration" \/ m.channel = "#dfw"
        THEN IF StartsWith(m.msg, NickPrefix(current_nickname))
             THEN [handled |-> TRUE,
                   nick    |-> extract_nick(m.prefix),
                   text    |-> StripPrefix(m.msg, NickPrefix(current_nickname)),
                   channel |-> m.channel]
             ELSE ignored
        ELSE IF m.channel = current_nickname
        THEN LET target == response_target(m)
             IN  IF target # << >> /\ target[1] # "DM"
                 THEN [handled |-> TRUE, nick |-> target[1],
                       text |-> m.msg, channel |-> target[1]]
                 ELSE ignored
        ELSE ignored

(* -------------------------------- inputs ------------------------------- *)

\* "hi" and "yo"
Hi == <<104, 105>>
Yo == <<121, 111>>

Nickname(name) == Prefix("Nickname", name)

\* Messages the loop of run answers: addressed in a monitored channel (with
\* and without a sender prefix), and sent to the bot directly.
ChannelHi  == Message("PRIVMSG", "#linuxgeneration",
                      NickPrefix("pickles") \o Hi, Nickname("alice"))
ChannelAnon == Message("PRIVMSG", "#dfw", NickPrefix("pickles") \o Hi, NoPrefix)
DirectYo   == Message("PRIVMSG", "pickles", Yo, Nickname("bob"))

\* Messages it does not answer.
Ping          == Message("PING", "", << >>, NoPrefix)
ChannelChat   == Message("PRIVMSG", "#linuxgeneration", Hi, Nickname("alice"))
OtherChannel  == Message("PRIVMSG", "#other",
                         NickPrefix("pickles") \o Hi, Nickname("alice"))
DirectFromDM  == Message("PRIVMSG", "pickles", Yo, Nickname("DM"))
DirectAnon    == Message("PRIVMSG", "pickles", Yo, NoPrefix)

Events == {ChannelHi, ChannelAnon, DirectYo,
           Ping, ChannelChat, OtherChannel, DirectFromDM, DirectAnon}

StoreEvents == {ChannelHi, DirectYo, Ping}

\* Reply texts: "ok"; one line of CHUNK_LIMIT + 1 characters; six lines
\* "a", "", a line of CHUNK_LIMIT + 1 characters, "é" (two bytes, ended by
\* "\r\n"), "e" and "f"; and the MAX_LINES lines "a", "b", "c" (ended by
\* "\r\n") and "d" (ended by "\n"); and the empty text.
ReplyShort == <<111, 107>>
LongLine   == [i \in 1..(CHUNK_LIMIT + 1) |-> 120]
ReplyLong  == LongLine
ReplyBig   == <<97, LF, LF>> \o LongLine
              \o <<LF, 195, 169, CR, LF, 101, LF, 102>>
ReplyFour  == <<97, LF, 98, LF, 99, CR, LF, 100, LF>>
ReplyEmpty == << >>

\* A choice of the completion response; its content is an Option.
Choice(content) == [content |-> content]
\* What client.chat().create(request).await yields: an error, or a
\* response with its choices.
Response(choices) == [kind |-> "ok", choices |-> choices]
Failure == [kind |-> "error", choices |-> << >>]
NoResponse == [kind |-> "none", choices |-> << >>]

Responses ==
    {Failure, Response(<< >>), Response(<<Choice(<< >>)>>),
     Response(<<Choice(<<ReplyShort>>), Choice(<< >>)>>)}
    \cup {Response(<<Choice(<<r>>)>>) : r \in {ReplyShort, ReplyLong, ReplyBig, ReplyFour,
                                             ReplyEmpty}}

StoreResponses ==
    {Failure, Response(<< >>), Response(<<Choice(<< >>)>>),
     Response(<<Choice(<<ReplyShort>>)>>)}

\* Arguments of truncate_to taken one call at a time. Characters of one,
\* two and four bytes: "a", "é" and U+1F600.
Chars == {<<97>>, <<195, 169>>, <<240, 159, 152, 128>>}

RECURSIVE TextsOf(_)
\* The texts of at most n characters.
TextsOf(n) ==
    IF n = 0 THEN {<< >>}
    ELSE LET shorter == TextsOf(n - 1)
         IN  shorter \cup {t \o c : t \in shorter, c \in Chars}

\* "é" followed by n - 1 times "x": n characters in n + 1 bytes.
WideLine(n) == IF n = 0 THEN << >> ELSE <<195, 169>> \o [i \in 1..(n - 1) |-> 120]

\* Every text of at most MaxLineChars characters with every limit up to
\* MaxLimit, and with the limit say passes the texts whose lengths lie
\* around one and two times that limit.
TruncateInputs ==
    {<<l, t>> : l \in 1..MaxLimit, t \in TextsOf(MaxLineChars)}
    \cup {<<CHUNK_LIMIT, WideLine(n)>> :
             n \in {0, 1, CHUNK_LIMIT - 1, CHUNK_LIMIT, CHUNK_LIMIT + 1,
                    2 * CHUNK_LIMIT - 1, 2 * CHUNK_LIMIT, 2 * CHUNK_LIMIT + 1}}

(* -------------------------------- state -------------------------------- *)

VARIABLES
    pc,        \* where the process is: "Start", "Connecting", "Streaming",
               \* "Asking", "Asked", "Saying", "Pacing", "Backoff", "Panicked"
    memory,    \* run's `memory`: nick -> history of turns
    message,   \* the inbound message taken from the stream last
    nick,      \* the nick the message is answered under
    channel,   \* say's `channel`: where the message arrived
    request,   \* the completion request in flight
    response,  \* what the completion call yielded
    reply,     \* the text handed to say (an Option)
    plan,      \* the sends say has still to make
    out,       \* what the current answer did so far: sends and sleeps
    result,    \* the last Result: "none", "say_ok", "ask_err", "irc_err", "run_ok",
               \* and "no_history" for the panic of the lookup in ask_chatgpt
    delay,     \* the time::sleep in progress
    inserted,  \* history variable: nick -> every turn recorded in this store
    prior,     \* history variable: the nicks the previous session's store held
    trunc      \* a call of truncate_to: its arguments, locals and result

vars == <<pc, memory, message, nick, channel, request, response, reply, plan, out,
          result, delay, inserted, prior, trunc>>

Duration(secs, nanos) == [secs |-> secs, nanos |-> nanos]
NoDelay == Duration(0, 0)

\* The entries of `out`: a message handed to the transport, and a sleep.
Sent(p)  == [op |-> "send", target |-> p.target, text |-> p.text, nanos |-> 0]
Slept(d) == [op |-> "sleep", target |-> "", text |-> << >>, nanos |-> d.nanos]

RECURSIVE SumLen(_, _)
SumLen(f, S) ==
    IF S = {} THEN 0
    ELSE LET n == CHOOSE x \in S : TRUE
         IN  Len(f[n]) + SumLen(f, S \ {n})

\* Turns recorded in the current store.
TotalInserted == SumLen(inserted, DOMAIN inserted)

Logged(log, n, turn) ==
    [x \in DOMAIN log \cup {n} |->
        IF x = n THEN (IF n \in DOMAIN log THEN Append(log[n], turn) ELSE <<turn>>)
                 ELSE log[x]]

\* A call of truncate_to(max_chars, target): `remaining`, `chunks`, and
\* whether it has returned `chunks`.
Truncation(max_chars, target, remaining, chunks, returned) ==
    [max_chars |-> max_chars, target |-> target, remaining |-> remaining,
     chunks |-> chunks, returned |-> returned]

\* No call of truncate_to is followed step by step.
NoTruncation == Truncation(0, << >>, << >>, << >>, FALSE)

Init ==
    /\ trunc = NoTruncation
    /\ pc = "Start"
    /\ memory = EmptyMemory
    /\ message = NoMessage
    /\ nick = ""
    /\ channel = ""
    /\ request = NoRequest
    /\ response = NoResponse
    /\ reply = << >>
    /\ plan = << >>
    /\ out = << >>
    /\ result = "none"
    /\ delay = NoDelay
    /\ inserted = EmptyMemory
    /\ prior = {}

(* ------------------------------ supervisor ----------------------------- *)

\* Variant: the store is kept from one call of run to the next.
RunEntryKeepsMemory ==
    /\ pc' = "Connecting"
    /\ inserted' = EmptyMemory
    /\ message' = NoMessage
    /\ nick' = ""
    /\ channel' = ""
    /\ request' = NoRequest
    /\ response' = NoResponse
    /\ reply' = << >>
    /\ plan' = << >>
    /\ out' = << >>
    /\ result' = "none"
    /\ delay' = NoDelay
    /\ UNCHANGED <<memory, prior, trunc>>

\* main calls run(): run creates its memory and starts to connect.
RunEntry ==
    /\ pc' = "Connecting"
    /\ memory' = EmptyMemory
    /\ inserted' = EmptyMemory
    /\ message' = NoMessage
    /\ nick' = ""
    /\ channel' = ""
    /\ request' = NoRequest
    /\ response' = NoResponse
    /\ reply' = << >>
    /\ plan' = << >>
    /\ out' = << >>
    /\ result' = "none"
    /\ delay' = NoDelay
    /\ UNCHANGED <<prior, trunc>>

\* The first iteration of main's loop.
Start == pc = "Start" /\ RunEntry

\* Variant: main gives up when run returns.
SessionEndExits(res) ==
    /\ pc' = "Exited"
    /\ result' = res
    /\ prior' = DOMAIN memory
    /\ UNCHANGED <<memory, message, nick, channel, request, response, reply,
                   plan, out, delay, inserted, trunc>>

\* run returned res, dropping its locals; main logs the result and sleeps
\* 30 s. (`memory` and `out` keep their last value until run is entered
\* again, so that the store a session ended with can be compared with the
\* store the next one starts with.)
SessionEnd(res) ==
    /\ pc' = "Backoff"
    /\ result' = res
    /\ delay' = Duration(BACKOFF_SECS, 0)
    /\ prior' = DOMAIN memory
    /\ message' = NoMessage
    /\ nick' = ""
    /\ channel' = ""
    /\ request' = NoRequest
    /\ response' = NoResponse
    /\ reply' = << >>
    /\ plan' = << >>
    /\ UNCHANGED <<memory, out, inserted, trunc>>

\* The sleep of main ends and the loop calls run() again.
BackoffElapsed == pc = "Backoff" /\ RunEntry

\* Client::from_config, client.identify and client.stream succeed.
Connected ==
    /\ pc = "Connecting"
    /\ pc' = "Streaming"
    /\ UNCHANGED <<memory, message, nick, channel, request, response, reply,
                   plan, out, result, delay, inserted, prior, trunc>>

\* One of them fails: `?` returns the error from run.
ConnectFails == pc = "Connecting" /\ SessionEnd("irc_err")

\* stream.next() yields None: the loop ends and run returns Ok(()).
StreamEnds == pc = "Streaming" /\ SessionEnd("run_ok")

\* stream.next() yields an error: `transpose()?` returns it from run.
StreamFails == pc = "Streaming" /\ SessionEnd("irc_err")

(* ----------------------------- one session ---------------------------- *)

\* The loop body of run is done with its message; res is what ask_chatgpt
\* or say returned. The message and all that was derived from it go out of
\* scope, and run waits for the next message.
NextMessage(res) ==
    /\ pc' = "Streaming"
    /\ result' = res
    /\ message' = NoMessage
    /\ nick' = ""
    /\ channel' = ""
    /\ request' = NoRequest
    /\ response' = NoResponse
    /\ reply' = << >>
    /\ plan' = << >>
    /\ out' = << >>
    /\ delay' = NoDelay

\* say is entered with the reply: it returns Ok at once when there is
\* nothing to send, and otherwise starts on its sends.
SayEntry(text) ==
    LET sends == say_plan(channel, text, nick)
    IN  IF sends = << >>
        THEN NextMessage("say_ok")
        ELSE /\ pc' = "Saying"
             /\ reply' = <<text>>
             /\ plan' = sends
             /\ out' = << >>
             /\ request' = NoRequest
             /\ response' = NoResponse
             /\ result' = "none"
             /\ delay' = NoDelay
             /\ UNCHANGED <<message, nick, channel>>

\* Variant: the next message is taken while the completion of the one
\* before is awaited.
ReceiveWhileAsking(events, maxInserts) ==
    /\ pc \in {"Streaming", "Asking"}
    /\ TotalInserted < maxInserts
    /\ \E m \in events :
          LET r == Route(m)
              mem == remember(memory, r.nick, r.text)
          IN  /\ r.handled
              /\ message' = m
              /\ nick' = r.nick
              /\ channel' = r.channel
              /\ memory' = mem
              /\ inserted' = Logged(inserted, r.nick, Turn("User", r.text))
              /\ IF r.nick \in DOMAIN mem
                 THEN /\ request' = build_request(mem, r.nick)
                      /\ pc' = "Asking"
                      /\ result' = "none"
                 ELSE /\ request' = NoRequest
                      /\ pc' = "Panicked"
                      /\ result' = "no_history"
              /\ response' = NoResponse
              /\ reply' = << >>
              /\ plan' = << >>
              /\ out' = << >>
              /\ UNCHANGED <<delay, prior, trunc>>

\* The stream yields a message the loop answers: remember records the User
\* turn, ask_chatgpt builds the request and awaits the completion; its
\* `memory.get_mut(nick).expect(..)` panics for a nick without history.
\* (Every build() here has all its required fields set and returns Ok.)
Receive(events, maxInserts) ==
    /\ pc = "Streaming"
    /\ TotalInserted < maxInserts
    /\ \E m \in events :
          LET r == Route(m)
              mem == remember(memory, r.nick, r.text)
          IN  /\ r.handled
              /\ message' = m
              /\ nick' = r.nick
              /\ channel' = r.channel
              /\ memory' = mem
              /\ inserted' = Logged(inserted, r.nick, Turn("User", r.text))
              /\ IF r.nick \in DOMAIN mem
                 THEN /\ request' = build_request(mem, r.nick)
                      /\ pc' = "Asking"
                      /\ result' = "none"
                 ELSE /\ request' = NoRequest
                      /\ pc' = "Panicked"
                      /\ result' = "no_history"
              /\ response' = NoResponse
              /\ reply' = << >>
              /\ plan' = << >>
              /\ out' = << >>
              /\ UNCHANGED <<delay, prior, trunc>>

\* The stream yields a message the loop does not answer.
Ignore(events) ==
    /\ pc = "Streaming"
    /\ \E m \in events :
          /\ ~Route(m).handled
          /\ message' = m
          /\ nick' = ""
          /\ channel' = ""
          /\ request' = NoRequest
          /\ response' = NoResponse
          /\ reply' = << >>
          /\ plan' = << >>
          /\ out' = << >>
          /\ result' = "none"
          /\ UNCHANGED <<pc, memory, inserted, delay, prior, trunc>>

\* client.chat().create(request).await completes, with an error or with a
\* response.
CompletionArrives(responses) ==
    /\ pc = "Asking"
    /\ pc' = "Asked"
    /\ response' \in responses
    /\ UNCHANGED <<memory, message, nick, channel, request, reply, plan, out,
                   result, delay, inserted, prior, trunc>>

\* Variant: an error of ask_chatgpt is returned from run.
AskFailedFatal == SessionEnd("ask_err")

\* run, `Err(e) => eprintln!(..)`: the error of ask_chatgpt is printed and
\* run goes on to the next message.
AskFailed ==
    /\ NextMessage("ask_err")
    /\ UNCHANGED <<memory, inserted, prior, trunc>>

\* Variant: the fallback text is recorded as an Assistant turn.
NoChoiceRecorded ==
    /\ SayEntry(Fallback)
    /\ memory' = record_response(memory, nick, Turn("Assistant", Fallback))
    /\ UNCHANGED <<inserted, prior, trunc>>

\* ask_chatgpt, the else branch of `if let Some(choice) = ..first()`: the
\* fallback text is returned and handed to say.
NoChoice ==
    /\ SayEntry(Fallback)
    /\ UNCHANGED <<memory, inserted, prior, trunc>>

\* The rest of ask_chatgpt and the match on its result in run. An error is
\* returned by `?`. Without choices the fallback text is the reply.
\* Otherwise the content of the first choice (or "" when it has none) is
\* recorded as the Assistant turn, and `content.clone().unwrap()` is the
\* reply: it panics when the content is None. The reply goes to say.
AskReturns ==
    /\ pc = "Asked"
    /\ IF response.kind = "error"
       THEN AskFailed
       ELSE IF response.choices = << >>
       THEN NoChoice
       ELSE LET content == Head(response.choices).content
                text == IF content = << >> THEN << >> ELSE content[1]
                turn == Turn("Assistant", text)
            IN  /\ memory' = record_response(memory, nick, turn)
                /\ inserted' = Logged(inserted, nick, turn)
                /\ UNCHANGED <<prior, trunc>>
                /\ IF content = << >>
                   THEN /\ pc' = "Panicked"
                        /\ UNCHANGED <<message, nick, channel, request,
                                       response, reply, plan, out, result, delay>>
                   ELSE SayEntry(content[1])

\* Variant: say does not sleep after a chunk.
SendOkUnpaced ==
    /\ pc = "Saying"
    /\ plan # << >>
    /\ out' = Append(out, Sent(Head(plan)))
    /\ plan' = Tail(plan)
    /\ pc' = "Saying"
    /\ delay' = NoDelay
    /\ UNCHANGED <<memory, message, nick, channel, request, response, reply,
                   result, inserted, prior, trunc>>

\* client.send_privmsg succeeds for the next message of say; after a chunk
\* say sleeps.
SendOk ==
    /\ pc = "Saying"
    /\ plan # << >>
    /\ out' = Append(out, Sent(Head(plan)))
    /\ plan' = Tail(plan)
    /\ IF Head(plan).paced
       THEN pc' = "Pacing" /\ delay' = Duration(0, PACE_NANOS)
       ELSE pc' = "Saying" /\ delay' = NoDelay
    /\ UNCHANGED <<memory, message, nick, channel, request, response, reply,
                   result, inserted, prior, trunc>>

\* Variant: the error of say is printed like an error of ask_chatgpt.
SendFailsCaught ==
    /\ pc = "Saying"
    /\ plan # << >>
    /\ NextMessage("irc_err")
    /\ UNCHANGED <<memory, inserted, prior, trunc>>

\* Variant: say goes on with the message after the one that failed.
SendFailsSkips ==
    /\ pc = "Saying"
    /\ plan # << >>
    /\ plan' = Tail(plan)
    /\ result' = "irc_err"
    /\ UNCHANGED <<pc, memory, message, nick, channel, request, response,
                   reply, out, delay, inserted, prior, trunc>>

\* client.send_privmsg fails: `?` returns the error from say, and the `?`
\* after say(..).await returns it from run.
SendFails ==
    /\ pc = "Saying"
    /\ plan # << >>
    /\ SessionEnd("irc_err")

\* The sleep after a chunk ends: say goes on to its next send, or returns
\* Ok(()) and run waits for the next message.
PaceElapsed ==
    /\ pc = "Pacing"
    /\ IF plan = << >>
       THEN NextMessage("say_ok")
       ELSE /\ pc' = "Saying"
            /\ out' = Append(out, Slept(delay))
            /\ delay' = NoDelay
            /\ UNCHANGED <<message, nick, channel, request, response, reply,
                           plan, result>>
    /\ UNCHANGED <<memory, inserted, prior, trunc>>

(* ----------------------- truncate_to, step by step --------------------- *)

\* truncate_to is called: `remaining = target`, `chunks = vec![]`.
TruncateInit ==
    /\ \E in \in TruncateInputs :
          trunc = Truncation(in[1], in[2], in[2], << >>, FALSE)
    /\ pc = "Start"
    /\ memory = EmptyMemory
    /\ message = NoMessage
    /\ nick = ""
    /\ channel = ""
    /\ request = NoRequest
    /\ response = NoResponse
    /\ reply = << >>
    /\ plan = << >>
    /\ out = << >>
    /\ result = "none"
    /\ delay = NoDelay
    /\ inserted = EmptyMemory
    /\ prior = {}

\* One turn of the loop with `Some((offset, _))`: remaining is split at the
\* offset, the first part is pushed and the second part remains.
TruncateSplit ==
    LET offset == NthCharOffset(trunc.remaining, trunc.max_chars)
    IN  /\ ~trunc.returned
        /\ offset >= 0
        /\ trunc' = [trunc EXCEPT
              !.chunks = Append(@, SubSeq(trunc.remaining, 1, offset)),
              !.remaining = SubSeq(@, offset + 1, Len(@))]
        /\ UNCHANGED <<pc, memory, message, nick, channel, request, response,
                       reply, plan, out, result, delay, inserted, prior>>

\* The turn with `None`: remaining is pushed and chunks is returned.
TruncateReturn ==
    LET offset == NthCharOffset(trunc.remaining, trunc.max_chars)
    IN  /\ ~trunc.returned
        /\ offset < 0
        /\ trunc' = [trunc EXCEPT
              !.chunks = Append(@, trunc.remaining),
              !.returned = TRUE]
        /\ UNCHANGED <<pc, memory, message, nick, channel, request, response,
                       reply, plan, out, result, delay, inserted, prior>>

(* ---------------------------- specifications --------------------------- *)

Session(events, responses, maxInserts) ==
    \/ Receive(events, maxInserts)
    \/ Ignore(events)
    \/ CompletionArrives(responses)
    \/ AskReturns
    \/ SendOk
    \/ SendFails
    \/ PaceElapsed

Supervisor ==
    \/ Start
    \/ Connected
    \/ ConnectFails
    \/ StreamEnds
    \/ StreamFails
    \/ BackoffElapsed

Next == Supervisor \/ Session(Events, Responses, MaxInserts)

Spec == Init /\ [][Next]_vars

\* The sleeps of main end, and main starts: tokio runs the timer and the
\* main task.
LiveSpec == Spec /\ WF_vars(Start) /\ WF_vars(BackoffElapsed)

StoreNext == Supervisor \/ Session(StoreEvents, StoreResponses, StoreMaxInserts)

StoreSpec == Init /\ [][StoreNext]_vars

TruncateNext == TruncateSplit \/ TruncateReturn

\* Calls of truncate_to on their own.
TruncateSpec == TruncateInit /\ [][TruncateNext]_vars

(* ------------------------------ properties ----------------------------- *)

Last(s) == s[Len(s)]

\* The last n elements of s (all of s when it has fewer).
LastN(s, n) == SubSeq(s, IF Len(s) > n THEN Len(s) - n + 1 ELSE 1, Len(s))

IsSuffix(s, t) == Len(s) <= Len(t) /\ s = LastN(t, Len(s))

IsPrefix(s, t) == Len(s) <= Len(t) /\ s = SubSeq(t, 1, Len(s))

\* The messages handed to the transport so far for the current answer.
Sends(o) == SelectSeq(o, LAMBDA e : e.op = "send")

InSession == {"Connecting", "Streaming", "Asking", "Asked", "Saying", "Pacing"}

\* C1: whenever an insertion has completed, every nick's history holds at
\* most MAX_MEMORY turns, and they are the last MAX_MEMORY turns recorded
\* for that nick, in the order they were recorded.
C1_AtMostMaxMemoryMostRecent ==
    \A n \in DOMAIN memory :
        /\ Len(memory[n]) <= MAX_MEMORY
        /\ memory[n] = LastN(inserted[n], MAX_MEMORY)

\* C2 as claimed: when a session handles a message of a nick whose turns
\* the previous session's store held, those turns are still in the store
\* (so the history holds more than the turn just recorded).
C2_TurnsSurviveReconnect ==
    (pc = "Asking" /\ nick \in prior) => Len(memory[nick]) > 1

\* C2 as amended: every call of run starts with an empty store, and at the
\* first message a session answers for a nick the nick's history is that
\* message's User turn alone, whatever earlier sessions recorded.
C2_StoreIsPerSession ==
    /\ pc = "Connecting" => memory = EmptyMemory
    /\ (pc = "Asking" /\ Len(inserted[nick]) = 1)
           => memory[nick] = <<Turn("User", Route(message).text)>>

\* A later session answers a nick the previous session held turns of, and
\* the nick's history is one turn long.
C2_Witness ==
    pc = "Asking" /\ nick \in prior /\ Len(memory[nick]) = 1

\* A send of say failed in this step.
SendFailure == pc = "Saying" /\ result' = "irc_err"

\* C3 as claimed: a send failure leaves the session streaming.
C3_SendFailureKeepsSession ==
    [][SendFailure => pc' \in {"Streaming", "Saying", "Pacing"}]_vars

\* C3 as amended: a send failure is not caught per message; it ends the
\* session, and only an error of ask_chatgpt is caught per message, after
\* which the session is streaming.
C3_SendFailureEndsSession ==
    /\ [][SendFailure => pc' = "Backoff"]_vars
    /\ [][(pc = "Asked" /\ response.kind = "error") => pc' = "Streaming"]_vars

\* A session ended by a send failure after part of an answer went out.
C3_Witness ==
    pc = "Backoff" /\ result = "irc_err" /\ out # << >>

\* C4: when a send fails, the message is not handed to the transport again,
\* the rest of the plan is dropped, run returns the error to main, and no
\* message is sent until a new session streams.
C4_SendFailureAbortsPlan ==
    /\ [][SendFailure =>
            /\ out' = out
            /\ plan' = << >>
            /\ pc' = "Backoff"
            /\ delay' = Duration(BACKOFF_SECS, 0)]_vars
    /\ [][(pc \in {"Backoff", "Connecting"})
            => (Sends(out') = << >> \/ out' = out)]_vars

\* A session ended by a send failure after the redirect notice and at
\* least one chunk went out.
C4_Witness ==
    /\ pc = "Backoff"
    /\ result = "irc_err"
    /\ Len(Sends(out)) > 1
    /\ Sends(out)[1].text = NoticeText("alice")

\* run returns in this step: a connect or handshake failure, a fatal error
\* while streaming or answering, or the end of the stream.
RunReturns ==
    \/ pc = "Connecting" /\ pc' # "Streaming"
    \/ pc \in InSession /\ result' \in {"irc_err", "run_ok"}

\* C5: every return of run is followed by the 30 s sleep and then by a new
\* call of run; the first call is made without a sleep, and a connection is
\* attempted only at the start or after the sleep; every sleep ends in a new
\* attempt, without a limit on their number.
C5_BackoffThenReconnect ==
    /\ [][RunReturns => (pc' = "Backoff" /\ delay' = Duration(BACKOFF_SECS, 0))]_vars
    /\ [][pc = "Backoff" => pc' = "Connecting"]_vars
    /\ [][pc' = "Connecting" => pc \in {"Start", "Backoff"}]_vars
    /\ [][pc = "Start" => (pc' = "Connecting" /\ delay = NoDelay)]_vars
    /\ [][pc' # "Start"]_vars
    /\ (pc = "Backoff") ~> (pc = "Connecting")

\* A new connection attempt after a session that recorded turns.
C5_Witness ==
    pc = "Connecting" /\ prior # {}

\* C6: when the completion call fails, the store is left as it was, with
\* the User turn of the message as the last turn of the nick's history,
\* nothing is sent, no request is in flight, and the session is streaming.
C6_CompletionFailureIsPerMessage ==
    [][(pc = "Asked" /\ response.kind = "error") =>
            /\ memory' = memory
            /\ Last(memory[nick]) = Turn("User", Route(message).text)
            /\ out = << >> /\ out' = << >>
            /\ plan' = << >>
            /\ reply' = << >>
            /\ request' = NoRequest
            /\ pc' = "Streaming"]_vars

\* The session streams after a failed completion call, the turn recorded.
C6_Witness ==
    /\ pc = "Streaming"
    /\ result = "ask_err"
    /\ \E n \in DOMAIN memory : Last(memory[n]).role = "User"

\* C7: the process never terminates.
C7_NeverExits == pc \notin {"Panicked", "Exited"}

\* C8: the request in flight is one System turn, the prompt for the nick,
\* followed by the nick's whole history in stored order; the store holds
\* nothing but recorded turns, and no System turn.
C8_RequestIsPromptThenHistory ==
    /\ pc = "Asking" =>
          /\ Head(request.messages) = Turn("System", PromptText(nick))
          /\ Tail(request.messages) = memory[nick]
          /\ Last(memory[nick]).role = "User"
    /\ \A n \in DOMAIN memory :
          /\ IsSuffix(memory[n], inserted[n])
          /\ \A i \in 1..Len(memory[n]) : memory[n][i].role # "System"

\* A request is in flight for a nick whose history is longer than MAX_MEMORY.
C8_Witness ==
    pc = "Asking" /\ Len(memory[nick]) > MAX_MEMORY

\* C9: when the response has no choice, the store is left as it was, with
\* the User turn as the last turn of the nick's history, and the fallback
\* text goes to say, which sends it as one message to where the message
\* arrived.
C9_NoChoiceFallsBack ==
    [][(pc = "Asked" /\ response.kind = "ok" /\ response.choices = << >>) =>
            /\ memory' = memory
            /\ Last(memory[nick]).role = "User"
            /\ reply' = <<Fallback>>
            /\ plan' = <<Privmsg(channel, Fallback, TRUE)>>
            /\ pc' = "Saying"]_vars

\* The fallback text has been sent.
C9_Witness ==
    /\ pc = "Pacing"
    /\ plan = << >>
    /\ reply = <<Fallback>>
    /\ Sends(out) = <<Sent(Privmsg(channel, Fallback, TRUE))>>

RECURSIVE FlatChunks(_)
\* The chunks of all the lines, line after line.
FlatChunks(lines) ==
    IF lines = << >> THEN << >>
    ELSE truncate_to(CHUNK_LIMIT, Head(lines)) \o FlatChunks(Tail(lines))

\* What a reply of more than MAX_LINES lines has to send.
RedirectSends(arrival, sender, text) ==
    LET chunks == FlatChunks(Lines(text))
        notice == IF arrival # sender
                  THEN <<Sent(Privmsg(arrival, NoticeText(sender), FALSE))>>
                  ELSE << >>
    IN  notice \o [i \in 1..Len(chunks) |-> Sent(Privmsg(sender, chunks[i], TRUE))]

\* C10: for a reply of more than MAX_LINES lines the sends made so far are
\* the beginning of: the notice to the arrival target if that is not the
\* sender, then the chunks of every line, in order, to the sender; and when
\* the last send is made, they are all of it.
C10_RedirectSendsAllLines ==
    (pc \in {"Saying", "Pacing"} /\ Len(Lines(reply[1])) > MAX_LINES) =>
        LET expected == RedirectSends(channel, nick, reply[1])
        IN  /\ Len(expected) > Len(Lines(reply[1])) - (IF channel = nick THEN 1 ELSE 0)
            /\ IsPrefix(Sends(out), expected)
            /\ Sends(out) \o [i \in 1..Len(plan) |-> Sent(plan[i])] = expected
            /\ plan = << >> => Sends(out) = expected

\* A reply of more than MAX_LINES lines to a channel message has been sent.
C10_Witness ==
    /\ pc = "Pacing"
    /\ plan = << >>
    /\ Len(Lines(reply[1])) > MAX_LINES
    /\ channel # nick
    /\ Len(Sends(out)) > MAX_LINES + 1

\* Where a message arrived, as seen by its sender: the channel it was
\* posted in, or for a message sent to the bot itself the sender.
ArrivalTarget(m) ==
    IF IsChannelName(m.channel) THEN m.channel ELSE m.prefix.name

\* C11: for a reply of at most MAX_LINES lines the sends are the chunks of
\* its lines, in line order, all to where the message arrived (the channel,
\* or the sender of a direct message); none of them is the redirect notice,
\* none goes to another target, and when every line has at most CHUNK_LIMIT
\* characters there is exactly one send per line, carrying that line.
C11_DirectSendsToArrival ==
    (pc \in {"Saying", "Pacing"} /\ Len(Lines(reply[1])) <= MAX_LINES) =>
        LET lines == Lines(reply[1])
            chunks == FlatChunks(lines)
            arrival == ArrivalTarget(message)
            expected == [i \in 1..Len(chunks) |->
                            Sent(Privmsg(arrival, chunks[i], TRUE))]
            planned == [i \in 1..Len(plan) |-> Sent(plan[i])]
        IN  /\ Sends(out) \o planned = expected
            /\ \A i \in 1..Len(out) :
                  out[i].op = "send" =>
                      /\ out[i].target = arrival
                      /\ out[i].text # NoticeText(nick)
            /\ (\A j \in 1..Len(lines) : CharCount(lines[j]) <= CHUNK_LIMIT)
                  => /\ Len(expected) = Len(lines)
                     /\ \A j \in 1..Len(lines) : expected[j].text = lines[j]

\* A reply of exactly MAX_LINES lines has been sent to the channel of the
\* message, one send per line.
C11_Witness ==
    /\ pc = "Pacing"
    /\ plan = << >>
    /\ Len(Lines(reply[1])) = MAX_LINES
    /\ IsChannelName(channel)
    /\ Len(Sends(out)) = MAX_LINES
    /\ \A i \in 1..MAX_LINES : Sends(out)[i].target = ArrivalTarget(message)

\* ceil(n / d)
CeilDiv(n, d) == (n + d - 1) \div d

\* The number of chunks a text of n characters is cut into.
ChunkCount(n, max_chars) ==
    IF n = 0 THEN 1 ELSE CeilDiv(n, max_chars)

\* C12: truncate_to(max_chars, target) with max_chars >= 1 returns, after
\* fewer turns of its loop than it has chunks to return, exactly
\* max(1, ceil(n / max_chars)) chunks for a target of n characters: every
\* chunk but the last has max_chars characters, the last has between 1 and
\* max_chars, and the empty target gives one empty chunk; every chunk
\* starts at a character boundary. The result is what truncate_to of the
\* delivery plan computes.
C12_ChunksByCharacters ==
    LET n == CharCount(trunc.target)
        chunks == trunc.chunks
        count == ChunkCount(n, trunc.max_chars)
    IN  /\ trunc.returned =>
              /\ Len(chunks) = count
              /\ \A i \in 1..(Len(chunks) - 1) :
                    CharCount(chunks[i]) = trunc.max_chars
              /\ IF n = 0
                 THEN chunks = <<<< >>>>
                 ELSE CharCount(Last(chunks)) \in 1..trunc.max_chars
              /\ \A i \in 1..Len(chunks) :
                    chunks[i] # << >> => chunks[i][1] \div 64 # 2
              /\ chunks = truncate_to(trunc.max_chars, trunc.target)
        /\ (~trunc.returned /\ trunc.max_chars > 0) =>
              /\ Len(chunks) < count
              /\ CharCount(trunc.remaining) = n - Len(chunks) * trunc.max_chars

\* A text of two times CHUNK_LIMIT characters in more bytes than that has
\* been cut into two chunks.
C12_Witness ==
    /\ trunc.returned
    /\ trunc.max_chars = CHUNK_LIMIT
    /\ CharCount(trunc.target) = 2 * CHUNK_LIMIT
    /\ Len(trunc.target) > 2 * CHUNK_LIMIT
    /\ Len(trunc.chunks) = 2

RECURSIVE Concat(_)
\* The texts of a sequence, one after another.
Concat(texts) ==
    IF texts = << >> THEN << >> ELSE Head(texts) \o Concat(Tail(texts))

RECURSIVE Sum(_)
Sum(counts) ==
    IF counts = << >> THEN 0 ELSE Head(counts) + Sum(Tail(counts))

RECURSIVE Rejoin(_, _)
\* The texts joined in groups: the first counts[1] of them, then the next
\* counts[2], and so on.
Rejoin(texts, counts) ==
    IF counts = << >> THEN << >>
    ELSE <<Concat(SubSeq(texts, 1, Head(counts)))>>
         \o Rejoin(SubSeq(texts, Head(counts) + 1, Len(texts)), Tail(counts))

\* A text without its line terminators: without every "\n", and every
\* "\r" right before one.
StripTerminators(s) ==
    LET marked == [i \in 1..Len(s) |->
                      IF s[i] = LF \/ (s[i] = CR /\ i < Len(s) /\ s[i + 1] = LF)
                      THEN -1 ELSE s[i]]
    IN  SelectSeq(marked, LAMBDA b : b >= 0)

\* The texts of the chunk sends of an answer: all its sends but the notice.
ChunkTexts(sends) ==
    LET chunks == SelectSeq(sends, LAMBDA e : e.text # NoticeText(nick))
    IN  [i \in 1..Len(chunks) |-> chunks[i].text]

\* C13: under both strategies the chunk texts of an answer, those sent and
\* those still to send, are as many as the lines of the reply need, joined
\* line by line in send order they are the lines of the reply in their
\* order, and joined altogether they are the reply without its line
\* terminators; the chunks sent so far are the first of them.
C13_ChunksReproduceLines ==
    pc \in {"Saying", "Pacing"} =>
        LET lines == Lines(reply[1])
            counts == [j \in 1..Len(lines) |->
                          ChunkCount(CharCount(lines[j]), CHUNK_LIMIT)]
            sent == ChunkTexts(Sends(out))
            texts == sent \o ChunkTexts([i \in 1..Len(plan) |-> Sent(plan[i])])
        IN  /\ Len(texts) = Sum(counts)
            /\ Rejoin(texts, counts) = lines
            /\ Concat(texts) = StripTerminators(reply[1])
            /\ plan = << >> => Rejoin(sent, counts) = lines

\* The six lines of a reply, an empty one and one of two chunks among
\* them, have all been sent.
C13_Witness ==
    /\ pc = "Pacing"
    /\ plan = << >>
    /\ reply = <<ReplyBig>>
    /\ Len(ChunkTexts(Sends(out))) = 7
    /\ \E i \in 1..Len(out) : out[i].op = "send" /\ out[i].text = << >>

\* The channels run answers in.
Monitored == {"#linuxgeneration", "#dfw"}

\* A message that is not addressed to the bot: not a PRIVMSG; a PRIVMSG in
\* a monitored channel that does not begin with "<current nickname>: "; a
\* PRIVMSG to a target that is neither a monitored channel nor the bot; a
\* PRIVMSG to the bot whose sender is "DM".
NotAddressed(m) ==
    \/ m.command # "PRIVMSG"
    \/ /\ m.command = "PRIVMSG"
       /\ m.channel \in Monitored
       /\ ~StartsWith(m.msg, Utf8(current_nickname) \o <<58, 32>>)
    \/ /\ m.command = "PRIVMSG"
       /\ m.channel \notin Monitored \cup {current_nickname}
    \/ /\ m.command = "PRIVMSG"
       /\ m.channel = current_nickname
       /\ m.prefix.name = "DM"

\* C14: when the stream yields a message that is not addressed to the bot,
\* the store is left as it was, no request is made, nothing is sent or
\* planned to be sent, and run waits for the next message; and whenever a
\* message is being answered, it is not one of those.
C14_NotAddressedHasNoEffect ==
    /\ [][(pc = "Streaming" /\ message' # message /\ message' # NoMessage
             /\ NotAddressed(message')) =>
            (/\ memory' = memory
             /\ inserted' = inserted
             /\ request' = NoRequest
             /\ response' = NoResponse
             /\ reply' = << >>
             /\ plan' = << >>
             /\ out' = << >>
             /\ pc' = "Streaming")]_vars
    /\ [][(pc' \in {"Asking", "Asked", "Saying", "Pacing", "Panicked"})
            => ~NotAddressed(message')]_vars

\* A direct message from "DM" has been taken from the stream while the
\* store holds turns, and the session waits for the next message.
C14_Witness ==
    /\ pc = "Streaming"
    /\ message = DirectFromDM
    /\ NotAddressed(message)
    /\ memory # EmptyMemory
    /\ request = NoRequest
    /\ out = << >>

\* The positions of run between taking a message it answers and being
\* done with it.
Answering == {"Asking", "Asked", "Saying", "Pacing"}

\* C15: a message is taken from the stream only while run waits for one,
\* with no request in flight, no response to work off, nothing left to send
\* and no sleep in progress; and from the store write for a message to the
\* end of its answer the message in hand, its nick and its target stay the
\* same, each step being the next of that one message.
C15_OneMessageAtATime ==
    /\ [][(message' # message /\ message' # NoMessage) =>
            (/\ pc = "Streaming"
             /\ request = NoRequest
             /\ response = NoResponse
             /\ plan = << >>
             /\ out = << >>
             /\ delay = NoDelay)]_vars
    /\ [][(pc \in Answering /\ pc' \in Answering) =>
            (/\ message' = message
             /\ nick' = nick
             /\ channel' = channel
             /\ <<pc, pc'>> \in {<<"Asking", "Asked">>, <<"Asked", "Saying">>,
                                 <<"Saying", "Saying">>, <<"Saying", "Pacing">>,
                                 <<"Pacing", "Saying">>})]_vars
    /\ [][(memory' # memory /\ pc' # "Connecting")
            => pc \in {"Streaming", "Asked"}]_vars

\* A second message of a nick is being answered after the answer to its
\* first was recorded.
C15_Witness ==
    /\ pc = "Asking"
    /\ Len(inserted[nick]) = 3
    /\ inserted[nick][2].role = "Assistant"
    /\ plan = << >>
    /\ out = << >>

\* All of a non-empty sequence but its last element.
Front(s) == SubSeq(s, 1, Len(s) - 1)

\* C16: when ask_chatgpt works off a response with a choice, the nick's
\* history gets exactly one turn more at its end, an Assistant turn, and
\* that turn's content is the text handed to say; for a choice without
\* content the turn is empty and nothing is handed to say. When the call
\* failed or the response has no choice the store is left as it was. A turn
\* recorded in any other step is a User turn, and the response of a message
\* is worked off once.
C16_OneAssistantTurnPerReply ==
    /\ [][(pc = "Asked") =>
            IF response.kind = "ok" /\ response.choices # << >>
            THEN LET before == memory[nick]
                     after == memory'[nick]
                     content == Head(response.choices).content
                 IN  /\ Last(after).role = "Assistant"
                     /\ IsSuffix(Front(after), before)
                     /\ Len(after) \in {Len(before), Len(before) + 1}
                     /\ inserted'[nick] = Append(inserted[nick], Last(after))
                     /\ \A n \in DOMAIN memory \ {nick} : memory'[n] = memory[n]
                     /\ IF content = << >>
                        THEN Last(after).content = << >> /\ reply' = << >>
                                                        /\ pc' = "Panicked"
                        ELSE /\ Last(after).content = content[1]
                             /\ pc' \in {"Saying", "Streaming"}
                             /\ pc' = "Saying" => reply' = <<Last(after).content>>
                             /\ pc' = "Streaming" => Lines(content[1]) = << >>
            ELSE memory' = memory /\ inserted' = inserted]_vars
    /\ [][(pc # "Asked") =>
            \A n \in DOMAIN memory' :
                (n \notin DOMAIN memory \/ memory'[n] # memory[n])
                    => Last(memory'[n]).role = "User"]_vars
    /\ [][(pc' = "Asked" => pc = "Asking") /\ (pc = "Asked" => pc' # "Asked")]_vars

\* The reply of the first message of a nick is recorded and about to be
\* sent.
C16_Witness ==
    /\ pc = "Saying"
    /\ out = << >>
    /\ Len(memory[nick]) = 2
    /\ memory[nick][1].role = "User"
    /\ memory[nick][2] = Turn("Assistant", reply[1])

\* C17 as claimed: in an answer every message handed to the transport that
\* is followed by anything is followed by one sleep of the pacing delay,
\* the notice like the chunks.
C17_EveryTwoSendsPaced ==
    \A i \in 1..(Len(out) - 1) :
        out[i].op = "send" => out[i + 1] = Slept(Duration(0, PACE_NANOS))

\* The notice of a redirected answer, as it is handed to the transport.
NoticeSent == Sent(Privmsg(channel, NoticeText(nick), FALSE))

\* C17 as amended: say sleeps the pacing delay once after every chunk it
\* sends, the last one too, but not after the redirect notice: two messages
\* go out without a sleep between them only when the first is the notice,
\* which is the first message of the answer, and the second the first
\* chunk. Each step hands at most one message to the transport, the first
\* of the plan, and the sends of an answer are its plan from the start, in
\* order.
C17_ChunksPacedInPlanOrder ==
    /\ [](pc \in {"Saying", "Pacing"} =>
            /\ \A i \in 1..(Len(out) - 1) :
                  (out[i].op = "send" /\ out[i + 1].op = "send")
                      => (i = 1 /\ out[1] = NoticeSent /\ channel # nick)
            /\ \A i \in 1..Len(out) :
                  out[i].op = "sleep"
                      => /\ out[i] = Slept(Duration(0, PACE_NANOS))
                         /\ i > 1
                         /\ out[i - 1].op = "send"
                         /\ out[i - 1] # NoticeSent
            /\ pc = "Pacing" =>
                  /\ Last(out).op = "send"
                  /\ Last(out) # NoticeSent
                  /\ delay = Duration(0, PACE_NANOS)
            /\ (pc = "Saying" /\ out # << >>) =>
                  (Last(out).op = "sleep" \/ out = <<NoticeSent>>)
            /\ LET planned == say_plan(channel, reply[1], nick)
               IN  /\ Len(Sends(out)) + Len(plan) = Len(planned)
                   /\ \A i \in 1..Len(Sends(out)) :
                         Sends(out)[i] = Sent(planned[i])
                   /\ \A i \in 1..Len(plan) :
                         plan[i] = planned[Len(Sends(out)) + i])
    /\ [][(pc \in {"Saying", "Pacing"} /\ Sends(out') # Sends(out)
             /\ pc' \in {"Saying", "Pacing"}) =>
            (/\ pc = "Saying"
             /\ Sends(out') = Append(Sends(out), Sent(Head(plan)))
             /\ plan' = Tail(plan))]_vars

\* The notice and the first chunk of a redirected answer went out one
\* right after the other, and a sleep came after the chunk.
C17_Witness ==
    /\ pc \in {"Saying", "Pacing"}
    /\ Len(out) >= 4
    /\ out[1] = NoticeSent
    /\ out[2].op = "send"
    /\ out[3] = Slept(Duration(0, PACE_NANOS))
    /\ out[4].op = "send"

\* C18: whichever turn is recorded, a User turn by remember or an
\* Assistant turn by ask_chatgpt, the history it is appended to first loses
\* its oldest turn when it holds more than MAX_MEMORY turns, and nothing
\* otherwise; the turns kept stay in their order, in front of the new one.
\* The store is written only when a message is taken and when its response
\* is worked off, to one history at a time, so that a message and its
\* answer drop at most two turns.
C18_EvictsOldestOnBothPaths ==
    /\ [][\A n \in DOMAIN memory' :
            IF n \notin DOMAIN memory
            THEN Len(memory'[n]) = 1
            ELSE memory'[n] # memory[n] =>
                    /\ Front(memory'[n]) =
                           (IF Len(memory[n]) > MAX_MEMORY THEN Tail(memory[n])
                                                           ELSE memory[n])
                    /\ Last(memory'[n]).role =
                           (IF pc = "Asked" THEN "Assistant" ELSE "User")]_vars
    /\ [][(memory' # memory /\ pc' # "Connecting") =>
            (/\ pc \in {"Streaming", "Asked"}
             /\ pc = "Streaming" => pc' = "Asking"
             /\ Cardinality({n \in DOMAIN memory' :
                    n \notin DOMAIN memory \/ memory'[n] # memory[n]}) = 1)]_vars

\* A message and its answer dropped two turns: the nick's history holds
\* MAX_MEMORY + 1 turns, the Assistant turn last, of the MAX_MEMORY + 3
\* recorded for it, and the twelfth was the first that could drop one.
C18_Witness ==
    /\ pc = "Saying"
    /\ Len(inserted[nick]) = MAX_MEMORY + 3
    /\ Len(memory[nick]) = MAX_MEMORY + 1
    /\ memory[nick] = LastN(inserted[nick], MAX_MEMORY + 1)
    /\ Last(memory[nick]).role = "Assistant"
    /\ memory[nick][MAX_MEMORY].role = "User"

\* The text of a message the bot answers, as its sender wrote it to the
\* bot: what follows "<current nickname>: " in a channel, all of a direct
\* message.
TriggerText(m) ==
    IF m.channel \in Monitored
    THEN SubSeq(m.msg, Len(Utf8(current_nickname)) + 3, Len(m.msg))
    ELSE m.msg

\* The identity a message is answered under: the nickname of its prefix,
\* and "Luser" for a channel message without one.
Sender(m) == IF m.prefix.kind = "Nickname" THEN m.prefix.name ELSE "Luser"

\* C19: while a request is in flight, for a channel message and for a
\* direct message alike, the nick it was built for is the sender of the
\* message and has a history, whose last turn is the User turn with the
\* text of that message, and that turn is the last message of the request;
\* the lookup of the history in ask_chatgpt never panics.
C19_HistoryExistsWhenAsked ==
    /\ pc = "Asking" =>
          /\ nick = Sender(message)
          /\ nick \in DOMAIN memory
          /\ memory[nick] # << >>
          /\ Last(memory[nick]) = Turn("User", TriggerText(message))
          /\ Last(request.messages) = Turn("User", TriggerText(message))
    /\ result # "no_history"

\* A request is in flight for the second direct message of a nick.
C19_Witness ==
    /\ pc = "Asking"
    /\ message = DirectYo
    /\ Len(memory[nick]) = 3
    /\ memory[nick][3] = Turn("User", Yo)
    /\ Len(request.messages) = 4

\* C20: a step that records a turn, the User turn of a message or the
\* Assistant turn of its answer, changes the history of the sender of that
\* message and of no other nick: every other history stays as it is, turn
\* for turn, and no history is added or removed. Every turn of a nick's
\* history is one that was recorded for that nick, and the turns of a
\* history are in the order they were recorded in.
C20_OtherHistoriesUntouched ==
    /\ [][(pc' # "Connecting") =>
            \A n \in DOMAIN memory \cup DOMAIN memory' :
                (\/ n \notin DOMAIN memory
                 \/ n \notin DOMAIN memory'
                 \/ memory'[n] # memory[n])
                    => n = (IF pc = "Streaming" THEN Sender(message')
                                                ELSE Sender(message))]_vars
    /\ [](\A n \in DOMAIN memory :
            /\ n \in DOMAIN inserted
            /\ \A i \in 1..Len(memory[n]) :
                  memory[n][i] =
                      inserted[n][Len(inserted[n]) - Len(memory[n]) + i])

\* Two nicks have histories of different lengths, and a turn has just been
\* recorded for the one with the shorter history.
C20_Witness ==
    /\ pc = "Asking"
    /\ nick = "bob"
    /\ "alice" \in DOMAIN memory
    /\ Len(memory["alice"]) > Len(memory["bob"])
    /\ Len(memory["bob"]) > 1

=============================================================================
